---- MODULE Spec2Model ----
(***************************************************************************)
(* A model of the selector-free Playwright explorer                        *)
(* (src/tools/playwright_dynamic_explorer.py), of the job API in front of  *)
(* it (src/main.py) and of its polling client (src/app.py).                *)
(*                                                                         *)
(* Specifications:                                                         *)
(*   Spec         run: load, instrument, explore, collect, aggregate,      *)
(*                detect popups, verify links, generate, close             *)
(*   SpecInstr    _install_instrumentation applied repeatedly to one page, *)
(*                followed by pointer entries and DOM mutations            *)
(*   SpecExplore  _explore_page against a clock counted in ticks of 0.25 s *)
(*   SpecGherkin  _generate_gherkin applied to bounded (url, discoveries,  *)
(*                popups) inputs                                           *)
(*   SpecAgg      _aggregate_events applied to bounded event logs          *)
(*   SpecVerify   _safe_click_verify applied to bounded discovery lists    *)
(*   SpecJobs     start_job and its worker threads, job_status,            *)
(*                get_result and one polling client                        *)
(***************************************************************************)
EXTENDS Integers, Sequences, FiniteSets, TLC

VARIABLES
    pc,        \* position of the modelled routine
    result,    \* the result dict of run / the argument of _generate_gherkin
    page,      \* the document: its body's descendant elements in document order
    pointer,   \* the element under the virtual pointer (0: the body itself,
               \* -1: the pointer has not entered the page)
    events,    \* the event list read back from the page (run's local `events`)
    hover_events,   \* window.__hover_events, the InteractionEvent log
    dom_mutations,  \* window.__dom_mutations, the MutationRecord log
    instrumented,   \* how many listener sets and observers the page carries
    dialogs,        \* run's local `dialogs`, filled by on_dialog
    context,        \* the exploration browsing context
    browser,        \* the browser process
    click_verify,   \* run's argument click_verify
    outcome,        \* how run ended: "none", "returned" or "raised"
    ex,             \* the locals of _explore_page and its clock
    history,        \* the navigation history of the exploration page
    vf,             \* the locals of _safe_click_verify
    jobs,           \* main.py's jobs dict, keyed by the job ids in issue order
    worker,         \* the position and the locals of each job's _run thread
    client          \* one run of the app.py script

vars == <<pc, result, page, pointer, events, hover_events, dom_mutations,
          instrumented, dialogs, context, browser, click_verify, outcome, ex,
          history, vf, jobs, worker, client>>
pageVars == <<hover_events, dom_mutations, instrumented>>
runVars == <<dialogs, context, browser, click_verify, outcome, ex>>
verifyVars == <<history, vf>>
apiVars == <<jobs, worker, client>>

(***************************************************************************)
(* Text.  A string is the prefix of length len of the character stream     *)
(* named base, so that slicing (s[:n], .slice(0,n)) is a real operation:   *)
(* two strings of one base are prefixes of one another, strings of         *)
(* different bases differ in their first character.  Python's None is a    *)
(* value of its own; None and "" are both falsy.                           *)
(***************************************************************************)
S(b, n) == [base |-> b, len |-> n]
EmptyStr == S("", 0)
None == S("<None>", 0)
Truthy(s) == s.len > 0
Slice(s, n) == IF s.len <= n THEN s ELSE S(s.base, n)
Or(a, b) == IF Truthy(a) THEN a ELSE b

Min(a, b) == IF a <= b THEN a ELSE b
Max(a, b) == IF a >= b THEN a ELSE b
Head2(s) == SubSeq(s, 1, Min(2, Len(s)))

(***************************************************************************)
(* The document.  A page is the sequence of the elements below <body>, in  *)
(* document order (the order of querySelectorAll('body *')).  An element:  *)
(*   tag, classes, text (innerText, trimmed), href (None: no attribute),   *)
(*   rect (getBoundingClientRect, whole pixels), parent (0: body),         *)
(*   shownBy (0: always rendered; i: rendered only while element i or the  *)
(*   element itself is hovered), role, modal (aria-modal="true"),          *)
(*   position, z (computed z-index), alerts (hovering it calls alert()).   *)
(***************************************************************************)
Rect(x, y, w, h) == [x |-> x, y |-> y, w |-> w, h |-> h]
Elem(tag, classes, text, href, rect, parent, shownBy) ==
    [tag |-> tag, classes |-> classes, text |-> text, href |-> href,
     rect |-> rect, parent |-> parent, shownBy |-> shownBy,
     role |-> "", modal |-> FALSE, position |-> "static", z |-> 0,
     alerts |-> FALSE]

ViewportW == 1280
ViewportH == 800

\* An element is rendered (display, visibility, opacity) at this pointer place.
Rendered(pg, i, ptr) == pg[i].shownBy = 0 \/ ptr = pg[i].shownBy \/ ptr = i

\* Hovering a page's element changes what the page shows.
Interactive(pg) ==
    \E i \in 1..Len(pg) :
        \/ pg[i].alerts
        \/ \E j \in 1..Len(pg) : pg[j].shownBy = i
        \/ pg[i].role = "dialog" \/ pg[i].modal

(***************************************************************************)
(* fingerprint(el) of the install script (lines 145-159).                  *)
(***************************************************************************)
TxtLimit == 200
ClsLimit == 3
NullFp == [tag |-> None, cls |-> <<>>, idx |-> 0, txt |-> None, bbox |-> Rect(0, 0, 0, 0)]
BodyFp(pg) ==
    [tag |-> S("body", 4), cls |-> <<>>, idx |-> 2,
     txt |-> IF \E i \in 1..Len(pg) : Truthy(pg[i].text)
             THEN S("<body>", TxtLimit) ELSE EmptyStr,
     bbox |-> Rect(0, 0, ViewportW, ViewportH)]
fingerprint(pg, i) ==
    IF i = 0 THEN BodyFp(pg)
    ELSE [tag |-> pg[i].tag,
          cls |-> SubSeq(pg[i].classes, 1, Min(ClsLimit, Len(pg[i].classes))),
          idx |-> 1 + Cardinality({j \in 1..(i-1) : pg[j].parent = pg[i].parent}),
          txt |-> Slice(pg[i].text, TxtLimit),
          bbox |-> pg[i].rect]

(***************************************************************************)
(* sorted(seq, key, reverse=True): stable, descending.  Gt(a, b): a's key  *)
(* is greater than b's.                                                    *)
(***************************************************************************)
SortedDesc(seq, Gt(_, _)) ==
    LET n == Len(seq)
        pos(i) == 1 + Cardinality({j \in 1..n : Gt(seq[j], seq[i])})
                    + Cardinality({j \in 1..(i-1) :
                                     ~Gt(seq[j], seq[i]) /\ ~Gt(seq[i], seq[j])})
    IN  [p \in 1..n |-> seq[CHOOSE i \in 1..n : pos(i) = p]]

(***************************************************************************)
(* _aggregate_events (lines 298-378).                                      *)
(***************************************************************************)
KeyTxtLimit == 40
TopClusters == 12
QueryCap == 80
RevealedCap == 12
OverlapMargin == 8
MinNodeSize == 6
NodeTextLimit == 300

\* line 314: the composite key of a target
event_key(t) == <<t.tag, t.cls, t.idx, t.bbox.x, t.bbox.y, Slice(t.txt, KeyTxtLimit)>>

\* lines 310-313: the targets of the events that have one
event_targets(evs) ==
    LET withTarget == SelectSeq(evs, LAMBDA ev : ev.target # NullFp)
    IN  [i \in 1..Len(withTarget) |-> withTarget[i].target]

\* the Counter's keys, in the order of their first insertion
RECURSIVE counter_keys(_)
counter_keys(ts) ==
    IF ts = <<>> THEN <<>>
    ELSE LET before == counter_keys(SubSeq(ts, 1, Len(ts) - 1))
             k == event_key(ts[Len(ts)])
         IN  IF \E i \in 1..Len(before) : before[i] = k THEN before
             ELSE Append(before, k)

\* lines 315-316: counter[key], target_samples[key]
key_count(ts, k) == Cardinality({i \in 1..Len(ts) : event_key(ts[i]) = k})
key_samples(ts, k) == SelectSeq(ts, LAMBDA t : event_key(t) = k)

\* line 318: counter.most_common(12)
most_common(ts) ==
    LET ks == counter_keys(ts)
        sorted == SortedDesc(ks, LAMBDA a, b : key_count(ts, a) > key_count(ts, b))
    IN  SubSeq(sorted, 1, Min(TopClusters, Len(sorted)))

\* lines 330-332
rectsOverlap(a, b) ==
    ~(a.right < b.left \/ a.left > b.right \/ a.bottom < b.top \/ a.top > b.bottom)

\* lines 328-354: the visible nodes overlapping the area around bbox
query_script(pg, ptr, bbox) ==
    LET area == [left |-> bbox.x - OverlapMargin, top |-> bbox.y - OverlapMargin,
                 right |-> bbox.x + bbox.w + OverlapMargin,
                 bottom |-> bbox.y + bbox.h + OverlapMargin]
        rc(i) == [left |-> pg[i].rect.x, top |-> pg[i].rect.y,
                  right |-> pg[i].rect.x + pg[i].rect.w,
                  bottom |-> pg[i].rect.y + pg[i].rect.h]
        keep(i) == /\ Rendered(pg, i, ptr)
                   /\ ~(pg[i].rect.w < MinNodeSize \/ pg[i].rect.h < MinNodeSize)
                   /\ rectsOverlap(area, rc(i))
        idxs == SelectSeq([i \in 1..Len(pg) |-> i], keep)
        out == [k \in 1..Len(idxs) |->
                   [tag |-> pg[idxs[k]].tag,
                    text |-> Slice(pg[idxs[k]].text, NodeTextLimit),
                    href |-> pg[idxs[k]].href,
                    bbox |-> pg[idxs[k]].rect]]
    IN  SubSeq(out, 1, Min(QueryCap, Len(out)))

\* lines 362-367, 373: keep the nodes with text or a hyperlink, at most 12
filter_revealed(revealed) ==
    LET filtered == SelectSeq(revealed, LAMBDA r : ~(~Truthy(r.text) /\ ~Truthy(r.href)))
    IN  SubSeq(filtered, 1, Min(RevealedCap, Len(filtered)))

\* line 377: the sort key (count, number of revealed nodes)
rank_by_count(a, b) == a.count > b.count
rank_gt(a, b) ==
    \/ a.count > b.count
    \/ a.count = b.count /\ Len(a.revealed) > Len(b.revealed)

\* lines 307-378.  failing: the places in `top` whose DOM query raises.
unsorted_discoveries(pg, ptr, evs, failing) ==
    LET ts == event_targets(evs)
        top == most_common(ts)
    IN  [n \in 1..Len(top) |->
            LET samples == key_samples(ts, top[n])
                sample == samples[Len(samples)]
                revealed == IF n \in failing THEN <<>>
                            ELSE query_script(pg, ptr, sample.bbox)
            IN  [fingerprint_key |-> top[n], count |-> key_count(ts, top[n]),
                 sample |-> sample, revealed |-> filter_revealed(revealed)]]
_aggregate_events(pg, ptr, evs, failing) ==
    SortedDesc(unsorted_discoveries(pg, ptr, evs, failing), rank_gt)

(***************************************************************************)
(* _generate_gherkin (lines 460-532).  A line of the output is its fixed   *)
(* text k and the values a interpolated into it, in order.                 *)
(***************************************************************************)
Line(k, a) == [k |-> k, a |-> a]
Blank == Line("", <<>>)
TriggerLimit == 60

\* lines 478-481: the first popup-ish discovery that has a title or buttons
\* (0: none)
candidate_last(pop) ==
    IF \E i \in 1..Len(pop) : Truthy(pop[i].title) \/ Len(pop[i].buttons) > 0
    THEN CHOOSE i \in 1..Len(pop) :
            /\ Truthy(pop[i].title) \/ Len(pop[i].buttons) > 0
            /\ \A j \in (i+1)..Len(pop) :
                  ~(Truthy(pop[j].title) \/ Len(pop[j].buttons) > 0)
    ELSE 0
candidate_index(pop) ==
    IF \E i \in 1..Len(pop) : Truthy(pop[i].title) \/ Len(pop[i].buttons) > 0
    THEN CHOOSE i \in 1..Len(pop) :
            /\ Truthy(pop[i].title) \/ Len(pop[i].buttons) > 0
            /\ \A j \in 1..(i-1) :
                  ~(Truthy(pop[j].title) \/ Len(pop[j].buttons) > 0)
    ELSE 0

\* lines 485-486
cancel_label(buttons) ==
    IF Len(buttons) > 0 THEN buttons[1].text ELSE S("Cancel", 6)
continue_label(buttons) ==
    IF Len(buttons) > 1 THEN buttons[2].text ELSE S("Continue", 8)

\* lines 475-502
KPopupScenario == "Scenario: Validate popup/overlay behavior - {title}"
KGiven == "  Given the user is on {url}"
KPopupWhen == "  When the user triggers the action that opens the popup"
KPopupThen == "  Then a pop-up/overlay should appear with title {title}"
KPopupButtons == "  And the pop-up should contain buttons {btns}"
KCancelStep == "  When the user clicks the {cancel_label} button"
KCancelThen == "  Then the pop-up should close and the user should remain on the same page"
KContinueStep == "  When the user triggers the popup again and clicks the {continue_label} button"
KContinueThen == "  Then the page should navigate to the target link (if any)"
KNoButtons == "  # No actionable buttons detected in popup; manual verification required"
popup_scenario(url, pop) ==
    IF Len(pop) = 0 \/ candidate_index(pop) = 0 THEN <<>>
    ELSE LET candidate == pop[candidate_index(pop)]
             title == Or(candidate.title, S("Popup/Overlay", 13))
             buttons == candidate.buttons
         IN  << Line(KPopupScenario, <<title>>),
                Line(KGiven, <<url>>),
                Line(KPopupWhen, <<>>),
                Line(KPopupThen, <<title>>) >>
             \o (IF Len(buttons) > 0
                 THEN << Line(KPopupButtons,
                              [i \in 1..Len(Head2(buttons)) |-> buttons[i].text]),
                         Line(KCancelStep, <<cancel_label(buttons)>>),
                         Line(KCancelThen, <<>>),
                         Line(KContinueStep, <<continue_label(buttons)>>),
                         Line(KContinueThen, <<>>) >>
                 ELSE << Line(KNoButtons, <<>>) >>)
             \o << Blank >>

\* line 507
trigger_txt(top) == Slice(Or(top.sample.txt, top.sample.tag), TriggerLimit)

\* line 509
revealed_links_rev(top) ==
    LET RECURSIVE Rev(_)
        Rev(s) == IF s = <<>> THEN <<>> ELSE Rev(Tail(s)) \o <<Head(s)>>
    IN  Rev(SelectSeq(top.revealed, LAMBDA r : Truthy(r.href)))
revealed_links(top) == SelectSeq(top.revealed, LAMBDA r : Truthy(r.href))

\* lines 505-526
KHoverScenario == "Scenario: Validate hover-based interaction for {trigger_txt[:60]}"
KHoverWhen == "  When the user hovers over the UI element that appears like {trigger_txt[:60]}"
KLinkThen == "  Then a dropdown/overlay should appear containing a link {link_text}"
KLinkClick == "  When the user clicks the link {link_text}"
KUrlThen == "  Then the page URL should change to {href}"
KTextThen == "  Then a dropdown/overlay should appear containing text {sample_text}"
KManualThen == "  Then a hover-activated element should become visible (manual check)"
hover_scenario(url, hover) ==
    IF Len(hover) = 0 THEN <<>>
    ELSE LET top == hover[1]
             links == revealed_links(top)
         IN  << Line(KHoverScenario, <<trigger_txt(top)>>),
                Line(KGiven, <<url>>),
                Line(KHoverWhen, <<trigger_txt(top)>>) >>
             \o (IF Len(links) > 0
                 THEN LET link == links[1]
                          link_text == Or(link.text, link.href)
                      IN  << Line(KLinkThen, <<link_text>>),
                             Line(KLinkClick, <<link_text>>),
                             Line(KUrlThen, <<link.href>>) >>
                 ELSE IF Len(top.revealed) > 0
                 THEN << Line(KTextThen,
                              <<Or(top.revealed[1].text, top.revealed[1].tag)>>) >>
                 ELSE << Line(KManualThen, <<>>) >>)
             \o << Blank >>

\* lines 528-530
KNoInteractions == "  # No hover interactions or popups detected automatically. Manual checks required."
manual_note(pop, hover) ==
    IF Len(pop) = 0 /\ Len(hover) = 0
    THEN << Line(KNoInteractions, <<>>), Blank >> ELSE <<>>

\* lines 466-532
KFeature == "Feature: Validate hover and popup interactions for {url}"
_generate_gherkin(res) ==
    << Line(KFeature, <<res.url>>), Blank >>
    \o popup_scenario(res.url, res.popup_discoveries)
    \o hover_scenario(res.url, res.hover_discoveries)
    \o manual_note(res.popup_discoveries, res.hover_discoveries)

(***************************************************************************)
(* The install script at work (lines 136-208).  Every run of the script    *)
(* adds a pointerover listener, a mouseenter listener and a                *)
(* MutationObserver of its own (fresh function objects); the two logs are  *)
(* created only when missing.  The time field of a record is read nowhere. *)
(***************************************************************************)
Event(type, target) == [type |-> type, target |-> target]

\* lines 162-176: one pointer entry into element i, seen by n listener sets
hover_dispatch(pg, i, n) ==
    [k \in 1..(2 * n) |->
        Event(IF k <= n THEN "pointerover" ELSE "mouseenter", fingerprint(pg, i))]

\* lines 179-205: one DOM mutation, seen by n observers
mutation_dispatch(kind, n) == [k \in 1..n |-> [type |-> kind]]

\* hovering element i changes which elements are rendered
Toggles(pg, from, i) ==
    \E j \in 1..Len(pg) : Rendered(pg, j, from) # Rendered(pg, j, i)

(***************************************************************************)
(* _detect_popups (lines 383-424).                                         *)
(***************************************************************************)
ButtonCap == 8
ButtonTextLimit == 60
OverlayCap == 6
ZThreshold == 40
OverlayMinW == 80
OverlayMinH == 40

RECURSIVE IsDescendant(_, _, _)
IsDescendant(pg, i, a) ==
    /\ pg[i].parent # 0
    /\ pg[i].parent = a \/ IsDescendant(pg, pg[i].parent, a)

\* lines 396, 408
overlay_title(pg, i) ==
    LET hs == {j \in 1..Len(pg) : IsDescendant(pg, j, i)
                                    /\ pg[j].tag.base \in {"h1", "h2", "h3"}}
        ts == {j \in 1..Len(pg) : IsDescendant(pg, j, i)
                                    /\ \E c \in 1..Len(pg[j].classes) : pg[j].classes[c] = "title"}
        first(set) == CHOOSE j \in set : \A k \in set : j <= k
        h == IF hs = {} THEN EmptyStr ELSE pg[first(hs)].text
        t == IF ts = {} THEN EmptyStr ELSE pg[first(ts)].text
    IN  Or(Or(h, t), EmptyStr)

\* lines 397, 409
overlay_buttons(pg, i) ==
    LET bs == SelectSeq([j \in 1..Len(pg) |-> j],
                        LAMBDA j : IsDescendant(pg, j, i)
                                   /\ pg[j].tag.base \in {"a", "button"})
        cut == SubSeq(bs, 1, Min(ButtonCap, Len(bs)))
    IN  [k \in 1..Len(cut) |->
            [text |-> Slice(pg[cut[k]].text, ButtonTextLimit), href |-> pg[cut[k]].href]]

\* lines 395-399
role_dialogs(pg) ==
    LET ds == SelectSeq([j \in 1..Len(pg) |-> j],
                        LAMBDA j : pg[j].role = "dialog" \/ pg[j].modal)
    IN  [k \in 1..Len(ds) |->
            [type |-> "role_dialog", title |-> overlay_title(pg, ds[k]),
             buttons |-> overlay_buttons(pg, ds[k])]]

\* lines 401-411
high_overlays(pg, ptr) ==
    LET cand == SelectSeq([j \in 1..Len(pg) |-> j],
                   LAMBDA j :
                      /\ pg[j].position \in {"fixed", "sticky", "absolute"}
                      /\ pg[j].z > ZThreshold
                      /\ Rendered(pg, j, ptr)
                      /\ pg[j].rect.w > OverlayMinW \/ pg[j].rect.h > OverlayMinH)
        cut == SubSeq(cand, 1, Min(OverlayCap, Len(cand)))
    IN  [k \in 1..Len(cut) |->
            [type |-> "overlay", title |-> overlay_title(pg, cut[k]),
             buttons |-> overlay_buttons(pg, cut[k])]]

\* lines 384-424.  A browser_dialog record holds the dialog as its message and
\* a popup_window record a count; neither has a title or buttons.
_detect_popups(pg, ptr, dlgs, n_popup_pages, query_fails) ==
    [k \in 1..Len(dlgs) |-> [type |-> "browser_dialog", title |-> None, buttons |-> <<>>]]
    \o (IF query_fails THEN <<>> ELSE role_dialogs(pg) \o high_overlays(pg, ptr))
    \o (IF n_popup_pages > 0
        THEN <<[type |-> "popup_window", title |-> None, buttons |-> <<>>]>> ELSE <<>>)

(***************************************************************************)
(* _safe_click_verify (lines 429-455).                                     *)
(***************************************************************************)
\* line 444: href.startswith(...); a prefix is a string of the same stream
\* that is not longer
starts_never(s, prefixes) == FALSE
startswith(s, prefixes) == \E q \in prefixes : q.base = s.base /\ q.len <= s.len
PseudoPrefixes == {S("javascript:void(0)", 11), S("#top", 1)}

RECURSIVE Flatten(_)
Flatten(ss) == IF ss = <<>> THEN <<>> ELSE Head(ss) \o Flatten(Tail(ss))

\* lines 437-438: the revealed nodes in the order the two loops reach them
revealed_nodes(discoveries) ==
    Flatten([d \in 1..Len(discoveries) |-> discoveries[d].revealed])

\* lines 439-445: the nodes that are passed over
skipped(href) == ~Truthy(href) \/ startswith(href, PseudoPrefixes)

\* line 447: the context the link's page is opened in
own_page == "exploration"
link_context == "verification"

\* lines 448-452: how opening a link ends, and the entry it leaves.  pg.url is
\* the link itself or the place a redirect led to.
Outcomes == {"opened", "redirected", "error", "timeout"}
Landing == S("/landing", 8)
verification_entry(href, o) ==
    CASE o = "opened" -> [href |-> href, status |-> "opened", url |-> href]
      [] o = "redirected" -> [href |-> href, status |-> "opened", url |-> Landing]
      [] o = "error" -> [href |-> href, status |-> "error", e |-> "net::ERR"]
      [] o = "timeout" -> [href |-> href, status |-> "error", e |-> "Timeout"]

(***************************************************************************)
(* The scoped resources of run (lines 46-49, 56-57, 123-124).              *)
(***************************************************************************)
Open == [state |-> "open", closes |-> 0]
\* context.close(), browser.close()
close(res) == [state |-> "closed", closes |-> res.closes + 1]
\* leaving `with sync_playwright()` stops the driver, which ends the browser
\* it launched and the contexts of that browser
playwright_keeps(res) == res
playwright_stop(res) == IF res.state = "open" THEN close(res) ELSE res

(***************************************************************************)
(* _explore_page (lines 214-293).  Time is counted in ticks of a quarter   *)
(* of a second: total_time = T ticks, so int(math.sqrt(total_time) * 2) is *)
(* the integer square root of T.  A pointer move takes 0 or 1 tick, a grid *)
(* or spiral dwell (0.2-0.5 s) 1 or 2 ticks, a hotspot dwell 1 tick.       *)
(***************************************************************************)
MinRows == 3
MaxRows == 6
HotspotCap == 10
MaxJitter == 3
Isqrt(n) == CHOOSE k \in 0..n : k * k <= n /\ (k + 1) * (k + 1) > n
\* line 224: int() cuts the fraction off
Iround(n) == CHOOSE k \in 0..n : (2 * k - 1) * (2 * k - 1) <= 4 * n
                                  /\ 4 * n < (2 * k + 1) * (2 * k + 1)
grid_rows_rounded(T) == Max(MinRows, Min(MaxRows, Iround(T)))
grid_rows(T) == Max(MinRows, Min(MaxRows, Isqrt(T)))
\* lines 232, 270: the deadline checks of the grid sweep and of the hotspot walk
never_over(elapsed, T) == FALSE
grid_over(elapsed, T) == elapsed > T
hotspot_over(elapsed, T) == elapsed > T
\* line 284: the spiral goes on while this holds
spiral_on(elapsed, T) == elapsed < T

\* lines 237-245: a failed grid move is followed by a scroll and, when the
\* scroll went through, by a second move to the same target
grid_attempts(failed, scrolled) == IF failed /\ scrolled THEN 2 ELSE 1
\* lines 276-279, 289-292: a failed jitter or spiral move is passed over
retrying(failed) == IF failed THEN 2 ELSE 1
jitter_attempts(failed) == 1
spiral_attempts(failed) == 1

\* attempts: the moves made to the target of the last move, last: its phase
IdleEx == [total_time |-> 0, rows |-> 0, phase |-> "idle", r |-> 0, c |-> 0,
           elapsed |-> 0, centers |-> 0, jitter |-> 0, late |-> 0,
           attempts |-> 0, last |-> "none"]
\* a pointer move started at `elapsed` is late when the budget is already spent
Late(e, elapsed) == IF elapsed > e.total_time THEN e.late + 1 ELSE e.late

(***************************************************************************)
(* Pages the explorer is run on.                                           *)
(***************************************************************************)
PBlank == <<>>
PStatic ==
    << Elem(S("p", 1), <<>>, S("Hello", 5), None, Rect(0, 0, 200, 20), 0, 0),
       Elem(S("p", 1), <<"note">>, S("Lorem", 250), None, Rect(0, 30, 200, 90), 0, 0) >>
PMenu ==
    << Elem(S("nav", 3), <<"bar">>, S("Menu", 4), None, Rect(0, 40, 300, 40), 0, 0),
       Elem(S("div", 3), <<"menu", "item", "x", "y">>, S("Menu", 4), None,
            Rect(10, 45, 60, 20), 1, 0),
       Elem(S("a", 1), <<>>, S("Docs", 4), S("/docs", 5), Rect(10, 65, 60, 20), 1, 2) >>
PDialog ==
    << [Elem(S("div", 3), <<"modal">>, S("Leave? Cancel Continue", 22), None,
             Rect(400, 300, 300, 150), 0, 0)
          EXCEPT !.role = "dialog", !.position = "fixed", !.z = 100],
       Elem(S("h2", 2), <<>>, S("Leave?", 6), None, Rect(410, 310, 200, 20), 1, 0),
       Elem(S("button", 6), <<>>, S("Cancel", 6), None, Rect(410, 400, 80, 30), 1, 0),
       Elem(S("button", 6), <<>>, S("Continue", 8), None, Rect(500, 400, 80, 30), 1, 0) >>
PAlert ==
    << [Elem(S("button", 6), <<>>, S("Delete", 6), None, Rect(0, 0, 80, 30), 0, 0)
          EXCEPT !.alerts = TRUE] >>
Pages == {PBlank, PStatic, PMenu, PDialog, PAlert}

TargetUrl == S("https://example.com", 19)
EmptyResult(url) ==
    [url |-> url, hover_discoveries |-> <<>>, popup_discoveries |-> <<>>,
     errors |-> <<>>, generated_feature |-> <<>>, click_verification |-> <<>>]

\* the variables a specification does not exercise
IdlePage == hover_events = <<>> /\ dom_mutations = <<>> /\ instrumented = 0
IdleVf == [phase |-> "idle", k |-> 0, verified |-> <<>>, ctx |-> "none"]
IdleClient == [pc |-> "idle", job |-> 0, status |-> "", code |-> 0, content |-> None,
               shown |-> FALSE, failed |-> FALSE]
IdleApi == jobs = <<>> /\ worker = <<>> /\ client = IdleClient
IdleRun ==
    /\ history = <<>>
    /\ vf = IdleVf
    /\ IdleApi
    /\ dialogs = <<>>
    /\ context = [state |-> "none", closes |-> 0]
    /\ browser = [state |-> "none", closes |-> 0]
    /\ click_verify = FALSE
    /\ outcome = "none"
    /\ ex = IdleEx

\* the sequences over set of length at most n
SeqsUpTo(set, n) == UNION {[1..k -> set] : k \in 0..n}

(***************************************************************************)
(* SpecGherkin: _generate_gherkin on bounded inputs.  The popup part and   *)
(* the hover part of the function read disjoint inputs, so each side is    *)
(* varied in full against a few lists of the other.                        *)
(***************************************************************************)
MaxPopups == 2
MaxButtons == 2
MaxRevealed == 2
MaxDisc == 2

ButtonCatalogue ==
    << [text |-> S("Cancel", 6), href |-> None],
       [text |-> S("Continue", 8), href |-> S("/next", 5)],
       [text |-> S("Help", 4), href |-> None],
       [text |-> EmptyStr, href |-> None] >>
ButtonLists ==
    {SubSeq(ButtonCatalogue, 1, k) : k \in 0..Min(MaxButtons, Len(ButtonCatalogue))}
    \cup {<<ButtonCatalogue[2]>>}
BrowserDialog == [type |-> "browser_dialog", title |-> None, buttons |-> <<>>]
PopupWindow == [type |-> "popup_window", title |-> None, buttons |-> <<>>]
PopupCands ==
    {BrowserDialog, PopupWindow}
    \cup {[type |-> "role_dialog", title |-> t, buttons |-> b] :
            t \in {EmptyStr, S("Leave?", 6)}, b \in ButtonLists}
    \cup {[type |-> "overlay", title |-> S("Cookies", 7), buttons |-> <<>>]}
PopLists == SeqsUpTo(PopupCands, MaxPopups)
PopCore ==
    { <<>>, <<BrowserDialog>>,
      <<[type |-> "role_dialog", title |-> S("Leave?", 6),
         buttons |-> SubSeq(ButtonCatalogue, 1, 2)]>> }

\* revealed nodes as _aggregate_events leaves them: text or a hyperlink
RevealedNodes ==
    { [tag |-> S("span", 4), text |-> S("Docs", 4), href |-> None, bbox |-> Rect(0, 0, 60, 20)],
      [tag |-> S("a", 1), text |-> S("Docs", 4), href |-> S("/docs", 5), bbox |-> Rect(0, 0, 60, 20)],
      [tag |-> S("a", 1), text |-> EmptyStr, href |-> S("/x", 2), bbox |-> Rect(0, 20, 60, 20)] }
Samples ==
    { [tag |-> S("div", 3), cls |-> <<>>, idx |-> 1, txt |-> t, bbox |-> Rect(0, 0, 60, 20)] :
        t \in {EmptyStr, S("Menu", 4), S("Lorem", TxtLimit)} }
Disc(sample, count, revealed) ==
    [fingerprint_key |-> event_key(sample), count |-> count, sample |-> sample,
     revealed |-> revealed]
TailDisc ==
    Disc([tag |-> S("li", 2), cls |-> <<>>, idx |-> 3, txt |-> S("Other", 5),
          bbox |-> Rect(0, 100, 60, 20)], 1,
         << [tag |-> S("a", 1), text |-> S("Other", 5), href |-> S("/other", 6),
             bbox |-> Rect(0, 120, 60, 20)] >>)
HoverLists ==
    {<<>>} \cup
    { <<Disc(s, 2, r)>> \o [i \in 1..k |-> TailDisc] :
        s \in Samples, r \in SeqsUpTo(RevealedNodes, MaxRevealed), k \in 0..(MaxDisc - 1) }
HoverCore ==
    { <<>>,
      << Disc([tag |-> S("div", 3), cls |-> <<>>, idx |-> 1, txt |-> S("Menu", 4),
               bbox |-> Rect(0, 0, 60, 20)], 1, <<>>) >> }

GherkinInputs ==
    { [EmptyResult(TargetUrl) EXCEPT !.popup_discoveries = p, !.hover_discoveries = h] :
        p \in PopLists, h \in HoverCore }
    \cup
    { [EmptyResult(TargetUrl) EXCEPT !.popup_discoveries = p, !.hover_discoveries = h] :
        p \in PopCore, h \in HoverLists }

InitGherkin ==
    /\ pc = "gherkin"
    /\ result \in GherkinInputs
    /\ page = PBlank
    /\ pointer = -1
    /\ events = <<>>
    /\ IdlePage
    /\ IdleRun

GenerateGherkin ==
    /\ pc = "gherkin"
    /\ result' = [result EXCEPT !.generated_feature = _generate_gherkin(result)]
    /\ pc' = "close_context"
    /\ UNCHANGED <<page, pointer, events, pageVars, runVars, verifyVars, apiVars>>

NextGherkin == GenerateGherkin
SpecGherkin == InitGherkin /\ [][NextGherkin]_vars

(***************************************************************************)
(* SpecAgg: _aggregate_events on bounded event logs of the pages.          *)
(***************************************************************************)
MaxEvents == 3

PageTargets(pg) == {fingerprint(pg, i) : i \in 0..Len(pg)} \cup {NullFp}
EventLogs(pg) ==
    { [i \in 1..Len(ts) |-> Event(IF i % 2 = 1 THEN "pointerover" ELSE "mouseenter", ts[i])] :
        ts \in SeqsUpTo(PageTargets(pg), MaxEvents) }

InitAgg ==
    /\ pc = "aggregate"
    /\ page \in Pages
    /\ pointer \in 0..Len(page)
    /\ events \in EventLogs(page)
    /\ result = EmptyResult(TargetUrl)
    /\ IdlePage
    /\ IdleRun

Aggregate ==
    /\ pc = "aggregate"
    /\ \E failing \in SUBSET (1..Len(counter_keys(event_targets(events)))) :
          result' = [result EXCEPT !.hover_discoveries =
                        _aggregate_events(page, pointer, events, failing)]
    /\ pc' = "detect"
    /\ UNCHANGED <<page, pointer, events, pageVars, runVars, verifyVars, apiVars>>

NextAgg == Aggregate
SpecAgg == InitAgg /\ [][NextAgg]_vars

(***************************************************************************)
(* Spec: PlaywrightDynamicExplorer.run (lines 35-125) on one page, from    *)
(* the point where the browser, the context and the page exist.  The       *)
(* exploration is seen from the page: some pointer moves, each entering an *)
(* element (the timing of the driver is SpecExplore's).                    *)
(***************************************************************************)
MaxMoves == 2

Init ==
    /\ pc = "goto"
    /\ result = EmptyResult(TargetUrl)
    /\ page \in Pages
    /\ pointer = -1
    /\ events = <<>>
    /\ IdlePage
    /\ dialogs = <<>>
    /\ context = Open
    /\ browser = Open
    /\ click_verify \in BOOLEAN
    /\ outcome = "none"
    /\ ex = IdleEx
    /\ history = <<>>
    /\ vf = IdleVf
    /\ IdleApi

AddError(note) == [result EXCEPT !.errors = Append(@, note)]

\* line 53
GotoOk ==
    /\ pc = "goto"
    /\ history' = Append(history, result.url)
    /\ pc' = "install"
    /\ UNCHANGED <<result, page, pointer, events, pageVars, runVars, vf, apiVars>>

\* lines 56-58: where run goes on after a navigation error
carries_on == "install"
after_navigation_error == "nav_close_context"

\* lines 54-55
GotoFail ==
    /\ pc = "goto"
    /\ result' = AddError("Navigation error")
    /\ pc' = after_navigation_error
    /\ UNCHANGED <<page, pointer, events, pageVars, runVars, verifyVars, apiVars>>

\* lines 56, 123
CloseContext ==
    /\ pc \in {"nav_close_context", "close_context"}
    /\ context.state # "none"
    /\ context' = close(context)
    /\ pc' = IF pc = "nav_close_context" THEN "nav_close_browser" ELSE "close_browser"
    /\ UNCHANGED <<result, page, pointer, events, pageVars, dialogs, browser,
                   click_verify, outcome, ex, verifyVars, apiVars>>

\* lines 57-58, 124-125
CloseBrowser ==
    /\ pc \in {"nav_close_browser", "close_browser"}
    /\ browser' = close(browser)
    /\ pc' = "exit_return"
    /\ UNCHANGED <<result, page, pointer, events, pageVars, dialogs, context,
                   click_verify, outcome, ex, verifyVars, apiVars>>

\* line 46: the with block is left, by return or by an exception
ExitWith ==
    /\ pc \in {"exit_return", "exit_raise"}
    /\ context' = playwright_stop(context)
    /\ browser' = playwright_stop(browser)
    /\ outcome' = IF pc = "exit_return" THEN "returned" ELSE "raised"
    /\ pc' = "done"
    /\ UNCHANGED <<result, page, pointer, events, pageVars, dialogs, click_verify, ex,
                   verifyVars, apiVars>>

\* lines 61, 209: page.evaluate(install_script) runs the script
Install ==
    /\ pc = "install"
    /\ instrumented' = instrumented + 1
    /\ pc' = "explore"
    /\ UNCHANGED <<result, page, pointer, events, hover_events, dom_mutations, runVars, verifyVars, apiVars>>

\* lines 61, 209: page.evaluate raises; nothing in run catches it
InstallRaises ==
    /\ pc = "install"
    /\ pc' = "exit_raise"
    /\ UNCHANGED <<result, page, pointer, events, pageVars, runVars, verifyVars, apiVars>>

\* lines 238, 277, 290 seen from the page: the pointer enters element i
\* (lines 162-176 log it, lines 73-82 record and dismiss a dialog it opens)
PointerEnters(i) ==
    /\ i # pointer
    /\ IF i = 0 THEN TRUE ELSE Rendered(page, i, pointer)
    /\ Len(hover_events) + 2 * instrumented <= 2 * MaxMoves * instrumented
    /\ pointer' = i
    /\ hover_events' = hover_events \o hover_dispatch(page, i, instrumented)
    /\ dom_mutations' =
          IF Toggles(page, pointer, i)
          THEN dom_mutations \o mutation_dispatch("attr", instrumented)
          ELSE dom_mutations
ExploreMove ==
    /\ pc = "explore"
    /\ \E i \in 0..Len(page) :
          /\ PointerEnters(i)
          /\ dialogs' = IF i > 0 /\ page[i].alerts
                        THEN Append(dialogs, [type |-> "alert"]) ELSE dialogs
    /\ UNCHANGED <<pc, result, page, events, instrumented, context, browser,
                   click_verify, outcome, ex, verifyVars, apiVars>>

\* line 88 returns, or raises into lines 89-90
ExploreEnds ==
    /\ pc = "explore"
    /\ \/ UNCHANGED result
       \/ result' = AddError("Exploration error")
    /\ pc' = "collect"
    /\ UNCHANGED <<page, pointer, events, pageVars, runVars, verifyVars, apiVars>>

\* lines 93-101
Collect ==
    /\ pc = "collect"
    /\ \/ events' = hover_events
       \/ events' = <<>>
    /\ pc' = "aggregate"
    /\ UNCHANGED <<result, page, pointer, pageVars, runVars, verifyVars, apiVars>>

\* lines 107, 110, 113
DetectPopups ==
    /\ pc = "detect"
    /\ \E query_fails \in BOOLEAN :
          result' = [result EXCEPT !.popup_discoveries =
                        _detect_popups(page, pointer, dialogs, 0, query_fails)]
    /\ pc' = IF click_verify THEN "verify" ELSE "gherkin"
    /\ UNCHANGED <<page, pointer, events, pageVars, runVars, verifyVars, apiVars>>

\* lines 434-436: the verification context and its first page
VerifyOpen ==
    /\ pc = "verify"
    /\ vf.phase = "idle"
    /\ vf' = [phase |-> "loop", k |-> 1, verified |-> <<>>, ctx |-> "open"]
    /\ UNCHANGED <<pc, result, page, pointer, events, pageVars, runVars, history, apiVars>>

\* line 435 raises into lines 116-117
VerifyRaises ==
    /\ pc = "verify"
    /\ vf.phase = "idle"
    /\ result' = AddError("Click verify error")
    /\ pc' = "gherkin"
    /\ UNCHANGED <<page, pointer, events, pageVars, runVars, verifyVars, apiVars>>

\* lines 437-452: the next revealed node
VerifyNode ==
    /\ pc = "verify"
    /\ vf.phase = "loop"
    /\ vf.k <= Len(revealed_nodes(result.hover_discoveries))
    /\ LET href == revealed_nodes(result.hover_discoveries)[vf.k].href
       IN  IF skipped(href)
           THEN /\ vf' = [vf EXCEPT !.k = @ + 1]
                /\ UNCHANGED history
           ELSE \E o \in Outcomes :
                  /\ vf' = [vf EXCEPT !.k = @ + 1,
                                      !.verified = Append(@, verification_entry(href, o))]
                  /\ history' = IF link_context = "exploration"
                                    /\ o \in {"opened", "redirected"}
                                 THEN Append(history, verification_entry(href, o).url)
                                 ELSE history
    /\ UNCHANGED <<pc, result, page, pointer, events, pageVars, runVars, apiVars>>

\* lines 453-455
VerifyClose ==
    /\ pc = "verify"
    /\ vf.phase = "loop"
    /\ vf.k > Len(revealed_nodes(result.hover_discoveries))
    /\ vf' = [vf EXCEPT !.phase = "done", !.ctx = "closed"]
    /\ result' = [result EXCEPT !.click_verification = vf.verified]
    /\ pc' = "gherkin"
    /\ UNCHANGED <<page, pointer, events, pageVars, runVars, history, apiVars>>

Next ==
    \/ GotoOk
    \/ GotoFail
    \/ Install
    \/ InstallRaises
    \/ ExploreMove
    \/ ExploreEnds
    \/ Collect
    \/ Aggregate
    \/ DetectPopups
    \/ VerifyOpen
    \/ VerifyRaises
    \/ VerifyNode
    \/ VerifyClose
    \/ GenerateGherkin
    \/ CloseContext
    \/ CloseBrowser
    \/ ExitWith
Spec == Init /\ [][Next]_vars

(***************************************************************************)
(* SpecVerify: _safe_click_verify as run calls it, on bounded discovery    *)
(* lists whose revealed nodes carry every kind of href.                    *)
(***************************************************************************)
MaxNodes == 3

Hrefs == {None, EmptyStr, S("#top", 4), S("javascript:void(0)", 18), S("/a", 2), S("/b", 2)}
LinkNode(h) == [tag |-> S("a", 1), text |-> S("Docs", 4), href |-> h, bbox |-> Rect(10, 65, 60, 20)]
LinkNodes(hs) == [i \in 1..Len(hs) |-> LinkNode(hs[i])]
VerifyInputs ==
    { << Disc(fingerprint(PMenu, 2), 2, LinkNodes(SubSeq(hs, 1, Min(cut, Len(hs))))),
         Disc(fingerprint(PMenu, 1), 1,
              LinkNodes(SubSeq(hs, Min(cut, Len(hs)) + 1, Len(hs)))) >> :
        hs \in SeqsUpTo(Hrefs, MaxNodes), cut \in 0..MaxNodes }

InitVerify ==
    /\ pc = "verify"
    /\ \E h \in VerifyInputs :
          result = [EmptyResult(TargetUrl) EXCEPT
                       !.hover_discoveries = h,
                       !.popup_discoveries = <<BrowserDialog>>]
    /\ page = PMenu
    /\ pointer = 2
    /\ events = <<>>
    /\ IdlePage
    /\ dialogs = <<>>
    /\ context = Open
    /\ browser = Open
    /\ click_verify = TRUE
    /\ outcome = "none"
    /\ ex = IdleEx
    /\ history = <<TargetUrl>>
    /\ vf = IdleVf
    /\ IdleApi

NextVerify == VerifyOpen \/ VerifyRaises \/ VerifyNode \/ VerifyClose
SpecVerify == InitVerify /\ [][NextVerify]_vars

(***************************************************************************)
(* SpecJobs: the job API of main.py (start_job and its _run thread,        *)
(* job_status, get_result) with up to MaxJobs jobs, and one run of the     *)
(* app.py script that submits a job, polls its status and shows the        *)
(* result.  The lines of _run are steps of their own: the threads and the  *)
(* request handlers interleave between them.  Job ids (uuid4, fresh) are   *)
(* the places of the jobs in issue order.                                  *)
(***************************************************************************)
MaxJobs == 2

explorerVars == <<pc, result, page, pointer, events, pageVars, runVars, verifyVars>>

\* main.py line 26
NewJob == [status |-> "pending", result |-> None, error |-> None]
start_job(js) == Append(js, NewJob)
\* main.py lines 30, 40-41, 44-45: the job a thread writes to (job_id of the
\* enclosing call)
shared_key(j) == 1
job_key(j) == j
\* main.py lines 32-38: the final output of a crew run; line 45: str(e)
FinalOutput == S("Feature: hover menu", 19)
ErrorText == S("kickoff failed", 14)
\* main.py line 67
PendingText == S("Pending...", 10)

\* main.py lines 53-57
job_status(js, id) ==
    IF id \in DOMAIN js THEN [code |-> 200, status |-> js[id].status]
    ELSE [code |-> 404, status |-> ""]
\* main.py lines 61-69; a response made of None has an empty body
get_result(js, id) ==
    IF id \notin DOMAIN js THEN [code |-> 404, text |-> S("Job not found", 13)]
    ELSE IF js[id].status # "done" THEN [code |-> 200, text |-> PendingText]
    ELSE [code |-> 200, text |-> IF js[id].result = None THEN EmptyStr ELSE js[id].result]

InitJobs ==
    /\ pc = "api"
    /\ result = EmptyResult(TargetUrl)
    /\ page = PBlank
    /\ pointer = -1
    /\ events = <<>>
    /\ IdlePage
    /\ IdleRun

\* main.py lines 24-49, called by some other client
StartJob ==
    /\ Len(jobs) < MaxJobs
    /\ jobs' = start_job(jobs)
    /\ worker' = Append(worker, [pc |-> "start", out |-> None])
    /\ UNCHANGED <<client, explorerVars>>

\* app.py lines 18-28: the script posts start_job and keeps the job id
Submit ==
    /\ client.pc = "idle"
    /\ Len(jobs) < MaxJobs
    /\ jobs' = start_job(jobs)
    /\ worker' = Append(worker, [pc |-> "start", out |-> None])
    /\ client' = [client EXCEPT !.pc = "poll", !.job = Len(jobs) + 1]
    /\ UNCHANGED explorerVars

\* main.py line 30
RunStarts ==
    \E j \in DOMAIN worker :
        /\ worker[j].pc = "start"
        /\ jobs' = [jobs EXCEPT ![job_key(j)].status = "running"]
        /\ worker' = [worker EXCEPT ![j].pc = "kickoff"]
        /\ UNCHANGED <<client, explorerVars>>

\* main.py lines 32-38
KickoffReturns ==
    \E j \in DOMAIN worker :
        /\ worker[j].pc = "kickoff"
        /\ worker' = [worker EXCEPT ![j] = [pc |-> "mark_done", out |-> FinalOutput]]
        /\ UNCHANGED <<jobs, client, explorerVars>>

\* main.py lines 32-38 raise into line 43
KickoffRaises ==
    \E j \in DOMAIN worker :
        /\ worker[j].pc = "kickoff"
        /\ worker' = [worker EXCEPT ![j] = [pc |-> "mark_error", out |-> ErrorText]]
        /\ UNCHANGED <<jobs, client, explorerVars>>

\* main.py line 40
MarkDone ==
    \E j \in DOMAIN worker :
        /\ worker[j].pc = "mark_done"
        /\ jobs' = [jobs EXCEPT ![job_key(j)].status = "done"]
        /\ worker' = [worker EXCEPT ![j].pc = "store"]
        /\ UNCHANGED <<client, explorerVars>>

\* main.py line 41
StoreResult ==
    \E j \in DOMAIN worker :
        /\ worker[j].pc = "store"
        /\ jobs' = [jobs EXCEPT ![job_key(j)].result = worker[j].out]
        /\ worker' = [worker EXCEPT ![j].pc = "end"]
        /\ UNCHANGED <<client, explorerVars>>

\* main.py line 44
MarkError ==
    \E j \in DOMAIN worker :
        /\ worker[j].pc = "mark_error"
        /\ jobs' = [jobs EXCEPT ![job_key(j)].status = "error"]
        /\ worker' = [worker EXCEPT ![j].pc = "note"]
        /\ UNCHANGED <<client, explorerVars>>

\* main.py line 45
StoreError ==
    \E j \in DOMAIN worker :
        /\ worker[j].pc = "note"
        /\ jobs' = [jobs EXCEPT ![job_key(j)].error = worker[j].out]
        /\ worker' = [worker EXCEPT ![j].pc = "end"]
        /\ UNCHANGED <<client, explorerVars>>

\* app.py lines 32-39: one round of the polling loop
Poll ==
    /\ client.pc = "poll"
    /\ LET status == job_status(jobs, client.job).status
       IN  client' = [client EXCEPT
                        !.status = status,
                        !.failed = (status = "error"),
                        !.pc = IF status \in {"done", "error"} THEN "fetch" ELSE "poll"]
    /\ UNCHANGED <<jobs, worker, explorerVars>>

\* app.py lines 42-65: the result is fetched and, with status code 200, shown
\* in the Gherkin tab and offered for download
Fetch ==
    /\ client.pc = "fetch"
    /\ LET resp == get_result(jobs, client.job)
       IN  client' = [client EXCEPT !.pc = "end", !.code = resp.code,
                                    !.content = resp.text,
                                    !.shown = (resp.code = 200)]
    /\ UNCHANGED <<jobs, worker, explorerVars>>

NextJobs ==
    \/ StartJob
    \/ Submit
    \/ RunStarts
    \/ KickoffReturns
    \/ KickoffRaises
    \/ MarkDone
    \/ StoreResult
    \/ MarkError
    \/ StoreError
    \/ Poll
    \/ Fetch
SpecJobs == InitJobs /\ [][NextJobs]_vars

(***************************************************************************)
(* SpecInstr: _install_instrumentation run up to MaxInstalls times on a    *)
(* page, pointer entries and DOM mutations in between.                     *)
(***************************************************************************)
MaxInstalls == 2

InitInstr ==
    /\ pc = "install"
    /\ result = EmptyResult(TargetUrl)
    /\ page \in Pages
    /\ pointer = -1
    /\ events = <<>>
    /\ IdlePage
    /\ IdleRun

\* lines 130-209
InstallAgain ==
    /\ pc = "install"
    /\ instrumented < MaxInstalls
    /\ instrumented' = instrumented + 1
    /\ UNCHANGED <<pc, result, page, pointer, events, hover_events, dom_mutations, runVars, verifyVars, apiVars>>

\* lines 162-176: a physical pointer entry
HoverElement ==
    /\ pc = "install"
    /\ \E i \in 0..Len(page) : PointerEnters(i)
    /\ UNCHANGED <<pc, result, page, events, instrumented, runVars, verifyVars, apiVars>>

\* lines 179-205: a node is added to the document
NodeAdded ==
    /\ pc = "install"
    /\ Len(dom_mutations) + instrumented <= MaxMoves * MaxInstalls
    /\ dom_mutations' = dom_mutations \o mutation_dispatch("added", instrumented)
    /\ UNCHANGED <<pc, result, page, pointer, events, hover_events, instrumented, runVars, verifyVars, apiVars>>

NextInstr == InstallAgain \/ HoverElement \/ NodeAdded
SpecInstr == InitInstr /\ [][NextInstr]_vars

(***************************************************************************)
(* SpecExplore: _explore_page against its clock, for budgets of up to      *)
(* MaxBudget ticks and up to MaxCenters logged hotspot centers.            *)
(***************************************************************************)
MaxBudget == 17
MaxCenters == 3
MoveTicks == {0, 1}
DwellTicks == {1, 2}
exFrame == <<pc, result, page, pointer, events, pageVars, dialogs, context,
             browser, click_verify, outcome, verifyVars, apiVars>>

InitExplore ==
    /\ pc = "explore"
    /\ result = EmptyResult(TargetUrl)
    /\ page = PBlank
    /\ pointer = -1
    /\ events = <<>>
    /\ IdlePage
    /\ dialogs = <<>>
    /\ context = Open
    /\ browser = Open
    /\ click_verify = FALSE
    /\ outcome = "none"
    /\ history = <<>>
    /\ vf = IdleVf
    /\ IdleApi
    /\ \E T \in 1..MaxBudget :
          ex = [IdleEx EXCEPT !.total_time = T, !.rows = grid_rows(T), !.phase = "grid"]

\* lines 230-233: the deadline has passed when the next cell comes up
GridReturns ==
    /\ ex.phase = "grid"
    /\ grid_over(ex.elapsed, ex.total_time)
    /\ ex' = [ex EXCEPT !.phase = "returned"]
    /\ UNCHANGED exFrame

\* lines 232-247: one cell of the sweep; a failed move is followed by a scroll
\* and a second move
GridCell ==
    /\ ex.phase = "grid"
    /\ ~grid_over(ex.elapsed, ex.total_time)
    /\ \E move \in MoveTicks, dwell \in DwellTicks, retry \in MoveTicks,
          failed \in BOOLEAN, scrolled \in BOOLEAN :
          LET retried == grid_attempts(failed, scrolled) = 2
              lastCell == ex.r = ex.rows - 1 /\ ex.c = ex.rows - 1
          IN  ex' = [ex EXCEPT
                       !.attempts = grid_attempts(failed, scrolled),
                       !.last = "grid",
                       !.late = IF retried THEN Late(ex, ex.elapsed + move) ELSE ex.late,
                       !.elapsed = ex.elapsed + move + (IF retried THEN retry ELSE 0) + dwell,
                       !.c = IF ex.c = ex.rows - 1 THEN 0 ELSE ex.c + 1,
                       !.r = IF ex.c = ex.rows - 1 THEN ex.r + 1 ELSE ex.r,
                       !.phase = IF lastCell THEN "read" ELSE "grid"]
    /\ UNCHANGED exFrame

\* lines 251-269: the hotspot centers of the events logged so far, at most 10
ReadHotspots ==
    /\ ex.phase = "read"
    /\ \E n \in 0..MaxCenters, t \in MoveTicks :
          ex' = [ex EXCEPT !.centers = Min(n, HotspotCap),
                           !.elapsed = ex.elapsed + t,
                           !.phase = "hotspot"]
    /\ UNCHANGED exFrame

\* lines 269-271: the deadline has passed when the next center comes up
HotspotReturns ==
    /\ ex.phase = "hotspot"
    /\ ex.centers > 0
    /\ ex.jitter = 0
    /\ hotspot_over(ex.elapsed, ex.total_time)
    /\ ex' = [ex EXCEPT !.phase = "returned"]
    /\ UNCHANGED exFrame

\* lines 269-273: the next center, with 1 to 3 jitter moves to make
HotspotCenter ==
    /\ ex.phase = "hotspot"
    /\ ex.centers > 0
    /\ ex.jitter = 0
    /\ ~hotspot_over(ex.elapsed, ex.total_time)
    /\ \E k \in 1..MaxJitter : ex' = [ex EXCEPT !.jitter = k]
    /\ UNCHANGED exFrame

\* lines 273-280: one jitter move (a failure is passed over) and its dwell
JitterMove ==
    /\ ex.phase = "hotspot"
    /\ ex.jitter > 0
    /\ \E move \in MoveTicks, failed \in BOOLEAN :
          ex' = [ex EXCEPT !.attempts = jitter_attempts(failed),
                           !.last = "hotspot",
                           !.late = Late(ex, ex.elapsed),
                           !.elapsed = ex.elapsed + move + 1,
                           !.jitter = ex.jitter - 1,
                           !.centers = IF ex.jitter = 1 THEN ex.centers - 1 ELSE ex.centers]
    /\ UNCHANGED exFrame

\* line 269: the centers are used up
HotspotsDone ==
    /\ ex.phase = "hotspot"
    /\ ex.centers = 0
    /\ ex.jitter = 0
    /\ ex' = [ex EXCEPT !.phase = "spiral"]
    /\ UNCHANGED exFrame

\* lines 284-293: one move of the spiral and its dwell
SpiralMove ==
    /\ ex.phase = "spiral"
    /\ spiral_on(ex.elapsed, ex.total_time)
    /\ \E move \in MoveTicks, dwell \in DwellTicks, failed \in BOOLEAN :
          ex' = [ex EXCEPT !.attempts = spiral_attempts(failed),
                           !.last = "spiral",
                           !.late = Late(ex, ex.elapsed),
                           !.elapsed = ex.elapsed + move + dwell]
    /\ UNCHANGED exFrame

\* line 284: the loop ends and the function with it
SpiralEnds ==
    /\ ex.phase = "spiral"
    /\ ~spiral_on(ex.elapsed, ex.total_time)
    /\ ex' = [ex EXCEPT !.phase = "returned"]
    /\ UNCHANGED exFrame

NextExplore ==
    \/ GridReturns
    \/ GridCell
    \/ ReadHotspots
    \/ HotspotReturns
    \/ HotspotCenter
    \/ JitterMove
    \/ HotspotsDone
    \/ SpiralMove
    \/ SpiralEnds
SpecExplore == InitExplore /\ [][NextExplore]_vars

(***************************************************************************)
(* Properties of _explore_page (SpecExplore).                              *)
(***************************************************************************)
\* C4 as claimed: the deadline is consulted before each pointer move, so no
\* pointer move is started once the elapsed time exceeds the budget.
C4_NoMoveAfterDeadline == ex.late = 0

\* C4 as amended: the deadline is consulted before each grid cell, each
\* hotspot center and each spiral move; once the elapsed time exceeds the
\* budget at most two more pointer moves are started (the second and third
\* jitter move of the current hotspot center, or the retry of a failed grid
\* move), whatever the number of cells, centers and events, and the driver
\* has then returned or returns at its next deadline check.
C4_AtMostTwoLateMoves ==
    /\ ex.late <= MaxJitter - 1
    /\ ex.late > 0 /\ ex.phase = "grid" => grid_over(ex.elapsed, ex.total_time)
    /\ ex.late > 0 /\ ex.phase = "hotspot" /\ ex.jitter = 0 /\ ex.centers > 0
          => hotspot_over(ex.elapsed, ex.total_time)
    /\ ex.late > 0 /\ ex.phase = "spiral" => ~spiral_on(ex.elapsed, ex.total_time)
C4_Witness ==
    /\ ex.phase = "returned"
    /\ ex.late = 2
    /\ ex.centers > 1

\* C17 as claimed: a failed pointer move is never retried; in every phase each
\* planned move target is attempted at most once.
C17_NeverRetried == ex.attempts <= 1

\* C17 as amended: a failed pointer move of the grid sweep is followed by a
\* scroll and one second move to the same target; a failed move of the hotspot
\* walk or of the spiral is not retried; no target is attempted more than
\* twice, and the driver goes on with the next planned move.
C17_RetriedOnceInGridOnly ==
    /\ ex.attempts <= 2
    /\ ex.attempts = 2 => ex.last = "grid"
    /\ ex.last \in {"hotspot", "spiral"} => ex.attempts = 1
C17_Witness ==
    /\ ex.attempts = 2
    /\ ex.last = "grid"
    /\ ex.phase = "grid"
    /\ ex.r = 1
    /\ ~grid_over(ex.elapsed, ex.total_time)

C2_NoPhaseFailureLeavesRun ==
    /\ pc # "exit_raise"
    /\ outcome # "raised"

\* C10: on a page without any hover-reactive element, whatever pointer moves
\* the driver performs, run returns no hover discovery and no popup, and the
\* scenario text is the header followed by the 'no interactions' note alone.
C10_StaticPageYieldsOnlyNote ==
    outcome = "returned" /\ ~Interactive(page) /\ result.errors = <<>>
        => /\ result.hover_discoveries = <<>>
           /\ result.popup_discoveries = <<>>
           /\ result.generated_feature =
                 << Line(KFeature, <<result.url>>), Blank,
                    Line(KNoInteractions, <<>>), Blank >>

(***************************************************************************)
(* Properties of _install_instrumentation (SpecInstr).                     *)
(***************************************************************************)
\* C3: a second install is a no-op: on an instrumented page, however often
\* the installer ran, one pointer entry appends one pointerover and one
\* mouseenter InteractionEvent and one DOM mutation appends one
\* MutationRecord, as after a single install.
C3_SecondInstallIsNoOp ==
    [][ /\ instrumented >= 1 /\ pointer' # pointer
            => Len(hover_events') = Len(hover_events) + 2
        /\ instrumented >= 1 /\ dom_mutations' # dom_mutations
            => Len(dom_mutations') = Len(dom_mutations) + 1 ]_vars

(***************************************************************************)
(* Properties of _generate_gherkin (SpecGherkin).                          *)
(***************************************************************************)
GherkinDone == pc = "close_context"
Feature == result.generated_feature
LinesOf(k) == SelectSeq(Feature, LAMBDA l : l.k = k)
Qualifies(p) == p.title.len > 0 \/ Len(p.buttons) >= 1
FirstQualifying(pop) ==
    CHOOSE i \in 1..Len(pop) : Qualifies(pop[i]) /\ \A j \in 1..(i-1) : ~Qualifies(pop[j])
PopupEmitted == Len(LinesOf(KPopupScenario)) > 0
HoverEmitted == Len(LinesOf(KHoverScenario)) > 0

\* C5: whenever neither a popup scenario nor a hover scenario is emitted,
\* exactly one manual-verification note follows the feature header, so the
\* output always holds a scenario body or the note.
C5_NoteWhenNoScenario ==
    GherkinDone /\ ~PopupEmitted /\ ~HoverEmitted
        => /\ Len(LinesOf(KNoInteractions)) = 1
           /\ Len(Feature) >= 3
           /\ Feature[3] = Line(KNoInteractions, <<>>)

\* C6: the cancel step names the chosen candidate's first captured button and
\* the continue step its second; a step naming a button is emitted only when
\* that button was captured; without buttons both steps are omitted and the
\* manual-verification note is emitted.
C6_StepsOnlyFromCapturedButtons ==
    GherkinDone /\ PopupEmitted
        => LET b == result.popup_discoveries[FirstQualifying(result.popup_discoveries)].buttons
           IN  /\ LinesOf(KCancelStep) =
                     (IF Len(b) >= 1 THEN <<Line(KCancelStep, <<b[1].text>>)>> ELSE <<>>)
               /\ LinesOf(KContinueStep) =
                     (IF Len(b) >= 2 THEN <<Line(KContinueStep, <<b[2].text>>)>> ELSE <<>>)
               /\ Len(b) = 0 => Len(LinesOf(KNoButtons)) = 1

\* C7: exactly one popup scenario is emitted if some PopupCandidate has a
\* non-empty title or at least one button, and none otherwise; it is built from
\* the first such candidate of the popup list.
C7_OnePopupScenarioFromFirstCandidate ==
    GherkinDone
        => LET pop == result.popup_discoveries
           IN  IF \E i \in 1..Len(pop) : Qualifies(pop[i])
               THEN LET c == pop[FirstQualifying(pop)]
                        title == IF c.title.len > 0 THEN c.title ELSE S("Popup/Overlay", 13)
                    IN  /\ LinesOf(KPopupScenario) = <<Line(KPopupScenario, <<title>>)>>
                        /\ LinesOf(KPopupThen) = <<Line(KPopupThen, <<title>>)>>
                        /\ Len(c.buttons) >= 1 =>
                              LinesOf(KPopupButtons) =
                                 <<Line(KPopupButtons,
                                        [i \in 1..Min(2, Len(c.buttons)) |-> c.buttons[i].text])>>
                        /\ Len(c.buttons) = 0 => LinesOf(KPopupButtons) = <<>>
               ELSE /\ ~PopupEmitted
                    /\ LinesOf(KPopupThen) = <<>>
C7_Witness ==
    /\ GherkinDone
    /\ Len(result.popup_discoveries) = 2
    /\ ~Qualifies(result.popup_discoveries[1])
    /\ Qualifies(result.popup_discoveries[2])
    /\ PopupEmitted

AggDone == pc = "detect"
Discoveries == result.hover_discoveries

\* C9: the returned list is sorted by (occurrence count, number of revealed
\* nodes) descending whatever the order of the events in the log, a cluster
\* with a higher count precedes one with a lower count, and each count is the
\* number of logged events with a target that share the discovery's key.
C9_RankedByCountThenRevealed ==
    AggDone
        => /\ \A i, j \in 1..Len(Discoveries) :
                i < j =>
                   \/ Discoveries[i].count > Discoveries[j].count
                   \/ /\ Discoveries[i].count = Discoveries[j].count
                      /\ Len(Discoveries[i].revealed) >= Len(Discoveries[j].revealed)
           /\ \A i \in 1..Len(Discoveries) :
                Discoveries[i].count =
                   Cardinality({n \in 1..Len(events) :
                                  /\ events[n].target # NullFp
                                  /\ event_key(events[n].target) =
                                        Discoveries[i].fingerprint_key})
C9_Witness ==
    /\ AggDone
    /\ Len(Discoveries) >= 2
    /\ Discoveries[1].count > Discoveries[2].count
    /\ Len(events) = 3
    /\ events[1].target # NullFp
    /\ event_key(events[1].target) = Discoveries[2].fingerprint_key

\* C11: for a page with one trigger element that reveals one sibling link on
\* hover, the revealed list of the top-ranked discovery holds exactly that
\* link: the trigger itself and the visible nodes that merely overlap the
\* trigger's box widened by 8 px (its ancestors) are left out.
C11_RevealedIsExactlyTheLink ==
    \A i \in 1..Len(page) :
        LET shown == SelectSeq([j \in 1..Len(page) |-> j], LAMBDA j : page[j].shownBy = i)
        IN  /\ AggDone
            /\ pointer = i
            /\ Len(shown) = 1
            /\ Len(Discoveries) >= 1
            /\ Discoveries[1].sample = fingerprint(page, i)
            /\ Discoveries[1].revealed # <<>>
            => Discoveries[1].revealed =
                  << [tag |-> page[shown[1]].tag, text |-> page[shown[1]].text,
                      href |-> page[shown[1]].href, bbox |-> page[shown[1]].rect] >>

\* C12: for a page holding a single dialog element (role="dialog", possibly
\* aria-modal, possibly fixed or absolute with a z-index above 40 and a
\* non-trivial size) the popup list holds one PopupCandidate for it, with at
\* most 8 buttons in document order.
C12_OneCandidatePerDialog ==
    LET ds == {i \in 1..Len(page) : page[i].role = "dialog" \/ page[i].modal}
        cands == SelectSeq(result.popup_discoveries,
                           LAMBDA p : p.type \in {"role_dialog", "overlay"})
    IN  Cardinality(ds) = 1
            => /\ Len(cands) <= 1
               /\ \A k \in 1..Len(cands) : Len(cands[k].buttons) <= ButtonCap

\* C16: if the initial navigation fails the run aborts at once: no
\* instrumentation, exploration, aggregation, popup detection, click
\* verification or scenario synthesis step is executed, the context and then
\* the browser are closed, and the returned result has empty discovery lists
\* and an errors list holding the navigation error.
C16_NavigationFailureAborts ==
    (\E k \in 1..Len(result.errors) : result.errors[k] = "Navigation error")
        => /\ result = [EmptyResult(TargetUrl) EXCEPT !.errors = <<"Navigation error">>]
           /\ instrumented = 0
           /\ pointer = -1
           /\ hover_events = <<>> /\ events = <<>> /\ dialogs = <<>>
           /\ pc \in {"nav_close_context", "nav_close_browser", "exit_return", "done"}
           /\ pc = "nav_close_context" => context = Open /\ browser = Open
           /\ pc = "nav_close_browser" => context = close(Open) /\ browser = Open
           /\ pc \in {"exit_return", "done"}
                 => context = close(Open) /\ browser = close(Open)
           /\ pc = "done" => outcome = "returned"
C16_Witness ==
    /\ pc = "done"
    /\ outcome = "returned"
    /\ result.errors = <<"Navigation error">>
    /\ browser.closes = 1

C14_ExplorationStateUntouched ==
    [][ pc = "verify"
          => /\ history' = history
             /\ context' = context /\ browser' = browser
             /\ page' = page /\ pointer' = pointer
             /\ result'.hover_discoveries = result.hover_discoveries
             /\ result'.popup_discoveries = result.popup_discoveries
             /\ \/ result' = result
                \/ result' = [result EXCEPT !.click_verification = result'.click_verification]
                \/ result' = [result EXCEPT !.errors = Append(@, "Click verify error")]
      ]_vars
C14_Witness ==
    /\ vf.phase = "done"
    /\ Len(result.click_verification) = 3
    /\ result.click_verification[1].status = "opened"
    /\ result.click_verification[2].status = "error"
    /\ result.click_verification[2].e = "Timeout"
    /\ result.click_verification[3].status = "opened"
    /\ result.click_verification[3].url = Landing
    /\ history = <<TargetUrl>>
    /\ context = Open

(***************************************************************************)
(* Properties of the job API and its client (SpecJobs).                    *)
(***************************************************************************)
\* C15: a job's status moves only pending -> running -> done or pending ->
\* running -> error; done and error are never left, no status is skipped or
\* revisited, a new job starts as pending, and a job's status changes only in
\* a step of its own worker thread, which changes no other job.
C15_StatusTransitions ==
    [][ \A j \in DOMAIN jobs' :
          IF j \in DOMAIN jobs
          THEN \/ jobs'[j].status = jobs[j].status
               \/ /\ <<jobs[j].status, jobs'[j].status>> \in
                        { <<"pending", "running">>, <<"running", "done">>,
                          <<"running", "error">> }
                  /\ worker'[j] # worker[j]
                  /\ \A i \in DOMAIN jobs : i # j => jobs'[i] = jobs[i] /\ worker'[i] = worker[i]
          ELSE jobs'[j].status = "pending" ]_vars
C15_Witness ==
    /\ Len(jobs) = 2
    /\ jobs[1].status = "error"
    /\ jobs[2].status = "done"
    /\ worker[1].pc = "end"
    /\ worker[2].pc = "end"

\* C19: under every interleaving, whenever a job's status is done its result
\* is stored, and a client that saw done and then fetched the result holds
\* the final output text, never an empty one.
C19_DoneImpliesResultStored ==
    /\ \A j \in DOMAIN jobs : jobs[j].status = "done" => jobs[j].result = FinalOutput
    /\ client.pc = "end" /\ client.status = "done" => client.content = FinalOutput

\* C20: the polling loop ends once the job is done or failed, and the result
\* is shown as generated scenarios (and offered for download) only for a job
\* whose status is done.
C20_ShownOnlyWhenDone ==
    /\ client.pc \in {"fetch", "end"} => client.status \in {"done", "error"}
    /\ client.shown => client.status = "done" /\ jobs[client.job].status = "done"

====
